---- MODULE Spec2Model ----
(***************************************************************************)
(* Cannapedia content factory: the queue-driven bulk generator, the        *)
(* fact-check gate, the approval tool and the public entry store.          *)
(*                                                                         *)
(* Numbers: a confidence score is kept in hundredths (0.85 is 85); a       *)
(* JavaScript number is a record [nan, v] so that NaN is a value of its    *)
(* own and every comparison with it is false, as in the language.          *)
(* File names and slugs are sequences of one-character tokens.             *)
(***************************************************************************)
EXTENDS Integers, Sequences, FiniteSets, TLC

\* ------------------------------------------------------------------------
\* Program constants and bounds
\* ------------------------------------------------------------------------

MAX_ATTEMPTS == 3

\* Guard on item.attempts++ that keeps the state space finite even when the
\* candidate filter is changed; the program itself never gets there.
AttemptCap == 5

\* Largest --batch value tried.
MaxBatch == 2

\* ------------------------------------------------------------------------
\* JavaScript numbers
\* ------------------------------------------------------------------------

Num(n) == [nan |-> FALSE, v |-> n]

NaN == [nan |-> TRUE, v |-> 0]

\* x < y on numbers: false as soon as one side is NaN.
JsLt(x, y) == ~x.nan /\ ~y.nan /\ x.v < y.v

\* x >= y on numbers: false as soon as one side is NaN.
JsGe(x, y) == ~x.nan /\ ~y.nan /\ x.v >= y.v

MathMin(x, y) == IF x.nan \/ y.nan THEN NaN ELSE IF x.v <= y.v THEN x ELSE y

MathMax(x, y) == IF x.nan \/ y.nan THEN NaN ELSE IF x.v >= y.v THEN x ELSE y

\* What the fact-check collaborator may put under "confidenceScore": nothing,
\* a number (in range, below 0, above 1) or a value that is not a number.
RawConfidence ==
    { [kind |-> "missing", v |-> 0], [kind |-> "other", v |-> 0] }
      \cup { [kind |-> "number", v |-> n] : n \in {-20, 84, 85, 150} }

\* parsed.confidenceScore ?? 0.5, then the implicit ToNumber of Math.min.
Coalesce(raw) ==
    CASE raw.kind = "missing" -> Num(50)
      [] raw.kind = "number"  -> Num(raw.v)
      [] OTHER                -> NaN

Clamp01(raw) == MathMax(Num(0), MathMin(Num(100), Coalesce(raw)))

\* ------------------------------------------------------------------------
\* Slugs
\* ------------------------------------------------------------------------

LatinLower == {"t", "h", "c", "b", "d"}

LatinUpper == {"T", "H", "C", "B", "D"}

Hebrew == {"alef", "bet"}

ToLower(ch) ==
    CASE ch = "T" -> "t" [] ch = "H" -> "h" [] ch = "C" -> "c"
      [] ch = "B" -> "b" [] ch = "D" -> "d" [] OTHER -> ch

SlugChar(ch) == ch \in LatinLower \/ ch \in Hebrew

\* .replace(/[^a-z0-9 and Hebrew letters]+/g, "-"): every maximal run of
\* other characters becomes one "-".
RECURSIVE ReplaceRuns(_, _)
ReplaceRuns(s, inRun) ==
    IF s = <<>> THEN <<>>
    ELSE IF SlugChar(Head(s)) THEN <<Head(s)>> \o ReplaceRuns(Tail(s), FALSE)
    ELSE IF inRun THEN ReplaceRuns(Tail(s), TRUE)
    ELSE <<"-">> \o ReplaceRuns(Tail(s), TRUE)

\* .replace(/^-|-$/g, ""): one leading and one trailing "-" are removed.
TrimDash(s) ==
    LET a == IF s # <<>> /\ Head(s) = "-" THEN Tail(s) ELSE s
    IN  IF a # <<>> /\ a[Len(a)] = "-" THEN SubSeq(a, 1, Len(a) - 1) ELSE a

slugify(text) == TrimDash(ReplaceRuns([i \in 1..Len(text) |-> ToLower(text[i])], FALSE))

\* ------------------------------------------------------------------------
\* Queue items (concept-queue.json): the fields the driver never changes
\* ------------------------------------------------------------------------

Items == {1, 2}

ItemName(i) ==
    IF i = 1 THEN <<"T", "H", "C", " ", "(">> ELSE <<"alef", "bet">>

ItemSlug(i) == IF i = 1 THEN <<"t", "h", "c">> ELSE <<"c", "b", "d">>

ItemCategory(i) == IF i = 1 THEN "cannabinoids" ELSE "research-and-development"

\* Every file name the tools can touch in src/data/content (without .json),
\* and one that starts with an underscore.
FileNames ==
    {ItemSlug(i) : i \in Items} \cup {slugify(ItemName(i)) : i \in Items}
      \cup {<<"_", "t">>}

\* ------------------------------------------------------------------------
\* Fact-check gate
\* ------------------------------------------------------------------------

HIGH_RISK_KEYWORDS ==
    {"he_regulatsia", "he_mishpat", "he_hok", "he_refui", "he_asdara", "he_knas",
     "he_onesh", "he_misrad_habriut", "he_yakar", "he_rishayon",
     "regulation", "law", "legal", "medical", "penalty", "fine"}

MEDIUM_RISK_KEYWORDS ==
    {"he_mehkar", "he_madai", "he_nisui_klini", "research", "clinical", "study",
     "he_historia"}

highRiskCategories ==
    {"regulation-in-israel", "medical-indications", "side-effects-and-risks",
     "drug-drug-interactions"}

\* The fragments a serialized entry is made of here, lowercased, and the
\* keywords each one contains as a substring.
Substrings(fragment) ==
    CASE fragment = "medicalname"              -> {"medical"}
      [] fragment = "medical"                  -> {"medical"}
      [] fragment = "research"                 -> {"research"}
      [] fragment = "research-and-development" -> {"research"}
      [] OTHER                                 -> {}

LowerFragment(f) == IF f = "medicalName" THEN "medicalname" ELSE f

\* lowerContent.includes(k.toLowerCase())
Includes(fragments, k) == \E f \in fragments : k \in Substrings(LowerFragment(f))

StringifyValuesOnly(concept) == concept.words \cup {concept.categorySlug}

\* JSON.stringify(conceptJson): keys and values alike end up in the text.
Stringify(concept) ==
    concept.words
      \cup (IF concept.schemaKeys THEN {"medicalName"} ELSE {})
      \cup {concept.categorySlug}

classifyRisk(categorySlug, conceptJson) ==
    IF categorySlug \in highRiskCategories THEN "high"
    ELSE IF \E k \in HIGH_RISK_KEYWORDS : Includes(conceptJson, k) THEN "high"
    ELSE IF \E k \in MEDIUM_RISK_KEYWORDS : Includes(conceptJson, k) THEN "medium"
    ELSE "low"

PLACEHOLDER == "Fact-check process failed - manual review required"

\* How the fact-check model call can end: generateContent rejects, the text
\* is not JSON, the text is the JSON value null, or an object comes back.
FcOutcomes ==
    { [kind |-> k, confidenceScore |-> [kind |-> "missing", v |-> 0],
       unverifiedClaims |-> <<>>] : k \in {"throws", "unparsable", "null"} }
      \cup { [kind |-> "json", confidenceScore |-> r,
               unverifiedClaims |-> IF r.kind = "number" /\ r.v >= 100 THEN <<>>
                                    ELSE <<"claim">>] :
               r \in RawConfidence }

FailClosedLax ==
    [claims |-> <<>>, confidenceScore |-> Num(50),
     unverifiedClaims |-> <<>>, riskLevel |-> "low"]

FailClosed ==
    [claims |-> <<>>, confidenceScore |-> Num(50),
     unverifiedClaims |-> <<PLACEHOLDER>>, riskLevel |-> "high"]

factCheck(conceptJson, outcome) ==
    LET riskLevel == classifyRisk(conceptJson.categorySlug, Stringify(conceptJson))
    IN  IF outcome.kind = "json"
        THEN [claims |-> <<>>,
              confidenceScore |-> Clamp01(outcome.confidenceScore),
              unverifiedClaims |-> outcome.unverifiedClaims,
              riskLevel |-> riskLevel]
        ELSE FailClosed

needsReviewNoContextRule(fcResult, hasCombinedContext) ==
    \/ JsLt(fcResult.confidenceScore, Num(85))
    \/ fcResult.riskLevel = "high"

needsReview(fcResult, hasCombinedContext) ==
    \/ JsLt(fcResult.confidenceScore, Num(85))
    \/ fcResult.riskLevel = "high"
    \/ ~hasCombinedContext

\* buildCombinedContext: the non-empty parts, in the fixed order.
buildCombinedContext(ragContext, liveMagazineContext, wikiContext, googleContext) ==
    SelectSeq(<<ragContext, liveMagazineContext, wikiContext, googleContext>>,
              LAMBDA c : c # "")

\* ------------------------------------------------------------------------
\* State
\* ------------------------------------------------------------------------

VARIABLES
    queueFile,    \* concept-queue.json on disk: item -> [status, attempts, lastError]
    queue,        \* the driver's in-memory QueueFile (main's `queue`)
    content,      \* src/data/content: file name -> entry, or NoFile
    pc,           \* where the driver's main() stands
    flags,        \* the run's command-line flags the loop reads (--skip-verify)
    selection,    \* what only the candidate selection reads: --retry-failed,
                  \* --category and main's `candidates`; dropped once the loop runs
    toProcess,    \* main's `toProcess`
    idx,          \* main's loop index i, from 1
    cur,          \* the locals of the item in flight
    tries,        \* item -> how many times the loop body was entered for it
    lastWrite,    \* the entry the last content write of the run carried
    lastFailure,  \* the error the last catch block handled
    reply         \* what the last call of a function of the store, of the
                  \* approval tool, of the retriever or of the product matcher
                  \* returned, with its arguments

vars ==
    <<queueFile, queue, content, pc, flags, selection, toProcess, idx, cur,
      tries, lastWrite, lastFailure, reply>>

QueueOrder == <<1, 2>>

NoFile ==
    [exists |-> FALSE, verificationStatus |-> "none", needsHumanReview |-> FALSE,
     slug |-> <<>>, categorySlug |-> ""]

NoFlags == [skipVerify |-> FALSE]

NoSelection == [retryFailed |-> FALSE, categoryFilter |-> "", candidates |-> <<>>]

NoCur ==
    [item |-> 0, slug |-> <<>>, hasRag |-> FALSE, hasCombinedContext |-> FALSE,
     concept |-> [slug |-> <<>>, schemaKeys |-> FALSE, words |-> {}, categorySlug |-> ""],
     sourceType |-> "", fcRan |-> FALSE, fcFailed |-> FALSE, confidenceScore |-> Num(0),
     unverifiedClaims |-> <<>>, riskLevel |-> "", verificationStatus |-> "none",
     needsHumanReview |-> FALSE, rateLimited |-> FALSE, slept |-> 0]

NoWrite == NoCur

NoFailure == [item |-> 0, msg |-> "null", slept |-> 0]

NoReply ==
    [fn |-> "", slug |-> <<>>, categorySlug |-> "", includeUnverified |-> FALSE,
     ok |-> FALSE, prior |-> NoFile, concepts |-> {}, slugs |-> {}]

\* The queue as 7-expand-taxonomy.ts leaves it for new concepts.
NewItem == [status |-> "pending", attempts |-> 0, lastError |-> "null"]

Init ==
    /\ queueFile = [i \in Items |-> NewItem]
    /\ queue = [i \in Items |-> NewItem]
    /\ content = [f \in FileNames |-> NoFile]
    /\ pc = "idle"
    /\ flags = NoFlags
    /\ selection = NoSelection
    /\ toProcess = <<>>
    /\ idx = 1
    /\ cur = NoCur
    /\ tries = [i \in Items |-> 0]
    /\ lastWrite = NoWrite
    /\ lastFailure = NoFailure
    /\ reply = NoReply

\* ------------------------------------------------------------------------
\* Bulk driver (3-generate-bulk.ts)
\* ------------------------------------------------------------------------

IsCandidateNoCap(c, itemCategory, retryFailed, categoryFilter) ==
    /\ ~(c.status = "completed" \/ c.status = "skipped")
    /\ ~(c.status = "failed" /\ ~retryFailed)
    /\ ~(categoryFilter # "" /\ itemCategory # categoryFilter)

\* The filter callback of `candidates`.
IsCandidate(c, itemCategory, retryFailed, categoryFilter) ==
    /\ ~(c.status = "completed" \/ c.status = "skipped")
    /\ ~(c.status = "failed" /\ ~retryFailed)
    /\ ~(c.status = "failed" /\ c.attempts >= MAX_ATTEMPTS)
    /\ ~(categoryFilter # "" /\ itemCategory # categoryFilter)

Min(a, b) == IF a <= b THEN a ELSE b

\* main, from loadQueue to the first loop iteration.
StartRun(batchSize, categoryFilter, retryFailed, skipVerify) ==
    /\ pc = "idle"
    /\ LET q == queueFile
           cands == SelectSeq(QueueOrder,
                       LAMBDA i : IsCandidate(q[i], ItemCategory(i), retryFailed, categoryFilter))
       IN  IF cands = <<>>
           THEN UNCHANGED <<queue, pc, flags, selection, toProcess, idx>>
           ELSE /\ queue' = q
                /\ selection' = [retryFailed |-> retryFailed,
                                 categoryFilter |-> categoryFilter,
                                 candidates |-> cands]
                /\ toProcess' = SubSeq(cands, 1, Min(batchSize, Len(cands)))
                /\ idx' = 1
                /\ flags' = [skipVerify |-> skipVerify]
                /\ pc' = "loop"
    /\ lastWrite' = NoWrite
    /\ lastFailure' = NoFailure
    /\ reply' = NoReply
    /\ UNCHANGED <<queueFile, content, cur, tries>>

FailedItemOffByOne(it) ==
    [it EXCEPT !.status = IF it.attempts > MAX_ATTEMPTS THEN "failed" ELSE "pending"]

\* The catch block: the item's new state after a failed attempt.
FailedItem(it) ==
    [it EXCEPT !.status = IF it.attempts >= MAX_ATTEMPTS THEN "failed" ELSE "pending"]

\* The default of --delay, in seconds.
delaySeconds == 15

RECURSIVE Pow2(_)
Pow2(n) == IF n <= 0 THEN 1 ELSE 2 * Pow2(n - 1)

\* The status codes an error message carries in its text.
StatusCodes(msg) ==
    CASE msg = "429 Too Many Requests" -> {"429"}
      [] msg = "503 Service Unavailable" -> {"503"}
      [] OTHER -> {}

\* msg.includes("429") || msg.includes("500") || msg.includes("503")
IsTransient(msg) == StatusCodes(msg) \cap {"429", "500", "503"} # {}

\* The sleep at the bottom of an iteration that did not back off.
InterItemSleep == IF idx < Len(toProcess) THEN delaySeconds ELSE 0

\* The sleep that follows a failed attempt: the backoff, or the usual delay.
SleepAfterFailure(item, msg) ==
    IF IsTransient(msg) THEN delaySeconds * Pow2(item.attempts - 1) ELSE InterItemSleep

CatchNoSave(q, item, msg) ==
    LET q2 == [q EXCEPT ![item] = [FailedItem(q[item]) EXCEPT !.lastError = msg]]
    IN  /\ queue' = q2
        /\ queueFile' = queueFile
        /\ lastFailure' = [item |-> item, msg |-> msg,
                           slept |-> SleepAfterFailure(q2[item], msg)]
        /\ lastWrite' = NoWrite
        /\ cur' = NoCur
        /\ idx' = idx + 1
        /\ pc' = "loop"

\* catch (err): status, lastError, saveQueue, then the next iteration.
Catch(q, item, msg) ==
    LET q2 == [q EXCEPT ![item] = [FailedItem(q[item]) EXCEPT !.lastError = msg]]
    IN  /\ queue' = q2
        /\ queueFile' = q2
        /\ lastFailure' = [item |-> item, msg |-> msg,
                           slept |-> SleepAfterFailure(q2[item], msg)]
        /\ lastWrite' = NoWrite
        /\ cur' = NoCur
        /\ idx' = idx + 1
        /\ pc' = "loop"

ModelSlugs == {<<>>} \cup {ItemSlug(i) : i \in Items}

\* What a request of a context channel meets: no connection, a timeout, a
\* non-OK status, a body that is not JSON, JSON of another shape than the API's
\* (an error object where the result list is expected), no result, results.
ChannelResponses ==
    {"unreachable", "timeout", "status429", "invalidJson", "wrongShape",
     "empty", "articles"}

NoContext == [threw |-> FALSE, msg |-> "null", context |-> ""]

\* searchLiveMagazine: [] on a non-OK status and on anything its try block
\* throws; otherwise the parsed body as it is.
searchLiveMagazine(response) ==
    CASE response = "articles" -> "posts"
      [] response = "wrongShape" -> "object"
      [] OTHER -> "[]"

\* fetchLiveMagazineContext: iterates the posts outside any try block.
fetchLiveMagazineContext(response) ==
    LET posts == searchLiveMagazine(response)
    IN  CASE posts = "object" ->
               [threw |-> TRUE, msg |-> "TypeError: posts is not iterable", context |-> ""]
          [] posts = "[]" -> NoContext
          [] OTHER -> [NoContext EXCEPT !.context = "text"]

\* searchWiki: [] on a non-OK status and on anything its try block throws;
\* otherwise data.query?.search ?? [] as it is.
searchWiki(response) ==
    CASE response = "articles" -> "results"
      [] response = "wrongShape" -> "object"
      [] OTHER -> "[]"

\* fetchWikipediaContext: iterates the search results outside any try block.
fetchWikipediaContext(response) ==
    LET results == searchWiki(response)
    IN  CASE results = "object" ->
               [threw |-> TRUE, msg |-> "TypeError: results is not iterable", context |-> ""]
          [] results = "[]" -> NoContext
          [] OTHER -> [NoContext EXCEPT !.context = "text"]

\* fetchGoogleSearchContext: the whole body is inside one try block.
fetchGoogleSearchContext(response) ==
    IF response = "articles" THEN [NoContext EXCEPT !.context = "text"] ELSE NoContext

\* The contexts each channel hands to the driver when it returns.
ReturnedWiki ==
    {fetchWikipediaContext(r).context :
        r \in {x \in ChannelResponses : ~fetchWikipediaContext(x).threw}}

ReturnedLiveMagazine ==
    {fetchLiveMagazineContext(r).context :
        r \in {x \in ChannelResponses : ~fetchLiveMagazineContext(x).threw}}

ReturnedGoogle ==
    {fetchGoogleSearchContext(r).context :
        r \in {x \in ChannelResponses : ~fetchGoogleSearchContext(x).threw}}

ContextTexts == {"", "text"}

\* One loop iteration from item.attempts++ to the drafting model's answer:
\* aliases, the four context channels, generateContent, JSON.parse, the slug
\* choice and the source type. The channels and the alias call hand back empty
\* values instead of throwing, so only the drafting call and JSON.parse can
\* send the iteration to the catch block, besides a channel that throws while
\* it walks a response of the wrong shape. aliasStatus is the HTTP status the
\* alias generator met: on 429 it returns no aliases and the iteration goes on.
Draft ==
    /\ UNCHANGED reply
    /\ pc = "loop"
    /\ idx <= Len(toProcess)
    /\ LET item == toProcess[idx]
           q == [queue EXCEPT ![item].attempts = @ + 1]
       IN  /\ queue[item].attempts < AttemptCap
           /\ tries' = [tries EXCEPT ![item] = @ + 1]
           /\ selection' = NoSelection
           /\ \/ /\ Catch(q, item, "429 Too Many Requests")
                 /\ UNCHANGED <<content, flags, toProcess>>
              \/ /\ Catch(q, item, "JSON parse failed")
                 /\ UNCHANGED <<content, flags, toProcess>>
              \/ \E response \in ChannelResponses :
                    /\ fetchWikipediaContext(response).threw
                    /\ Catch(q, item, fetchWikipediaContext(response).msg)
                    /\ UNCHANGED <<content, flags, toProcess>>
              \/ \E response \in ChannelResponses :
                    /\ fetchLiveMagazineContext(response).threw
                    /\ Catch(q, item, fetchLiveMagazineContext(response).msg)
                    /\ UNCHANGED <<content, flags, toProcess>>
              \/ \E ragContext \in ContextTexts,
                    liveMag \in ReturnedLiveMagazine,
                    wiki \in ReturnedWiki,
                    google \in ReturnedGoogle,
                    modelSlug \in ModelSlugs, schemaKeys \in BOOLEAN,
                    words \in {{}, {"medical"}, {"research"}},
                    aliasStatus \in {"200", "429"} :
                    LET combinedContext ==
                            buildCombinedContext(ragContext, liveMag, wiki, google)
                        hasCombinedContext == Len(combinedContext) > 0
                        hasRag == ragContext # ""
                        slug == IF modelSlug # <<>> THEN modelSlug
                                ELSE slugify(ItemName(item))
                    IN  /\ queue' = q
                        /\ cur' = [NoCur EXCEPT
                                     !.item = item,
                                     !.slug = slug,
                                     !.hasRag = hasRag,
                                     !.hasCombinedContext = hasCombinedContext,
                                     !.rateLimited = (aliasStatus = "429"),
                                     !.concept = [slug |-> slug, schemaKeys |-> schemaKeys,
                                                  words |-> words,
                                                  categorySlug |-> ItemCategory(item)],
                                     !.sourceType =
                                         IF ~hasCombinedContext THEN "global_ai"
                                         ELSE IF hasRag THEN "rag" ELSE "wikipedia"]
                        /\ pc' = "verify"
                        /\ lastWrite' = NoWrite
                        /\ lastFailure' = NoFailure
                        /\ UNCHANGED <<queueFile, content, flags, toProcess, idx>>

\* The fact-check step and the review decision, up to the point where the
\* driver either awaits notifyReview or goes on to the save.
Verify ==
    /\ UNCHANGED reply
    /\ pc = "verify"
    /\ IF flags.skipVerify
       THEN /\ cur' = [cur EXCEPT !.concept = [@ EXCEPT !.words = {}],
                                   !.verificationStatus = "verified",
                                   !.needsHumanReview = FALSE]
            /\ pc' = "save"
       ELSE \E outcome \in FcOutcomes :
              LET fcResult == factCheck(cur.concept, outcome)
                  review == needsReview(fcResult, cur.hasCombinedContext)
              IN  /\ cur' = [cur EXCEPT
                               !.concept = [@ EXCEPT !.words = {}],
                               !.fcRan = TRUE,
                               !.fcFailed = (outcome.kind # "json"),
                               !.confidenceScore = fcResult.confidenceScore,
                               !.unverifiedClaims = fcResult.unverifiedClaims,
                               !.riskLevel = fcResult.riskLevel,
                               !.verificationStatus =
                                   IF review THEN "pending" ELSE "verified",
                               !.needsHumanReview = review]
                  /\ pc' = IF review THEN "notify" ELSE "save"
    /\ UNCHANGED <<queueFile, queue, content, flags, selection, toProcess, idx,
                   tries, lastWrite, lastFailure>>

\* await notifyReview(...): the mail is sent, fails, or is skipped for want of
\* credentials; none of the three reaches the driver as an exception.
Notify ==
    /\ UNCHANGED reply
    /\ pc = "notify"
    /\ \E delivery \in {"sent", "failed", "skipped"} : pc' = "save"
    /\ UNCHANGED <<queueFile, queue, content, flags, selection, toProcess, idx,
                   cur, tries, lastWrite, lastFailure>>

\* The entry file the driver writes for the item in flight.
EntryOf(c) ==
    [exists |-> TRUE, verificationStatus |-> c.verificationStatus,
     needsHumanReview |-> c.needsHumanReview, slug |-> c.slug,
     categorySlug |-> c.concept.categorySlug]

\* fs.writeFileSync(outPath, ...), the item marked completed, saveQueue; or
\* the write throws and the catch block runs.
Save ==
    /\ UNCHANGED reply
    /\ pc = "save"
    /\ \E writeOk \in BOOLEAN :
         IF writeOk
         THEN LET q2 == [queue EXCEPT ![cur.item].status = "completed",
                                      ![cur.item].lastError = "null"]
              IN  /\ content' = [content EXCEPT ![cur.slug] = EntryOf(cur)]
                  /\ queue' = q2
                  /\ queueFile' = q2
                  /\ lastWrite' = [cur EXCEPT !.slept = InterItemSleep]
                  /\ lastFailure' = NoFailure
                  /\ cur' = NoCur
                  /\ idx' = idx + 1
                  /\ pc' = "loop"
         ELSE /\ Catch(queue, cur.item, "EACCES: permission denied")
              /\ UNCHANGED content
    /\ UNCHANGED <<flags, selection, toProcess, tries>>

\* The loop is over: the summary is printed and the process exits.
EndRun ==
    /\ UNCHANGED reply
    /\ pc = "loop"
    /\ idx > Len(toProcess)
    /\ pc' = "idle"
    /\ flags' = NoFlags
    /\ selection' = NoSelection
    /\ toProcess' = <<>>
    /\ idx' = 1
    /\ lastWrite' = NoWrite
    /\ lastFailure' = NoFailure
    /\ UNCHANGED <<queueFile, queue, content, cur, tries>>

\* The process is stopped during the sleep between two items.
Interrupt ==
    /\ UNCHANGED reply
    /\ pc = "loop"
    /\ idx > 1
    /\ idx <= Len(toProcess)
    /\ pc' = "idle"
    /\ flags' = NoFlags
    /\ selection' = NoSelection
    /\ toProcess' = <<>>
    /\ idx' = 1
    /\ lastWrite' = NoWrite
    /\ lastFailure' = NoFailure
    /\ UNCHANGED <<queueFile, queue, content, cur, tries>>

\* ------------------------------------------------------------------------
\* Approval tool (approve-concept.ts)
\* ------------------------------------------------------------------------

approveConceptKeepsFlag(store, slug) ==
    IF ~store[slug].exists
    THEN [ok |-> FALSE, store |-> store]
    ELSE IF store[slug].verificationStatus = "verified"
    THEN [ok |-> TRUE, store |-> store]
    ELSE [ok |-> TRUE,
          store |-> [store EXCEPT ![slug].verificationStatus = "verified"]]

\* approveConcept(slug): the value returned and the store afterwards.
approveConcept(store, slug) ==
    IF ~store[slug].exists
    THEN [ok |-> FALSE, store |-> store]
    ELSE IF store[slug].verificationStatus = "verified"
    THEN [ok |-> TRUE, store |-> store]
    ELSE [ok |-> TRUE,
          store |-> [store EXCEPT ![slug].verificationStatus = "verified",
                                  ![slug].needsHumanReview = FALSE]]

\* readdirSync(...).filter(f => f.endsWith(".json") && !f.startsWith("_"))
Listed(store) == {f \in FileNames : store[f].exists /\ Head(f) # "_"}

\* findPendingConcepts: each pending file, under data.slug || file name.
findPendingConcepts(store) ==
    {IF store[f].slug # <<>> THEN store[f].slug ELSE f :
        f \in {g \in Listed(store) : store[g].verificationStatus = "pending"}}

\* One run of the tool with a slug argument.
ApproveOne(slug) ==
    /\ pc = "idle"
    /\ LET r == approveConcept(content, slug)
       IN  /\ content' = r.store
           /\ reply' = [NoReply EXCEPT !.fn = "approveConcept", !.slug = slug,
                                       !.ok = r.ok, !.prior = content[slug]]
    /\ UNCHANGED <<queueFile, queue, pc, flags, selection, toProcess, idx, cur,
                   tries, lastWrite, lastFailure>>

\* --all-pending: approveConcept on every slug findPendingConcepts returned.
\* The calls touch one file each and set the same two fields, so their order
\* does not show in the result.
ApproveAllPending ==
    /\ pc = "idle"
    /\ LET targets == findPendingConcepts(content) \cap FileNames
       IN  /\ content' = [f \in FileNames |->
                            IF f \in targets THEN approveConcept(content, f).store[f]
                            ELSE content[f]]
           /\ reply' = [NoReply EXCEPT !.fn = "approveAllPending", !.slugs = targets]
    /\ UNCHANGED <<queueFile, queue, pc, flags, selection, toProcess, idx, cur,
                   tries, lastWrite, lastFailure>>

\* ------------------------------------------------------------------------
\* Specification of the factory
\* ------------------------------------------------------------------------

Categories == {"", "cannabinoids"}

Next ==
    \/ \E batchSize \in 1..MaxBatch, categoryFilter \in Categories,
          retryFailed \in BOOLEAN, skipVerify \in BOOLEAN :
          StartRun(batchSize, categoryFilter, retryFailed, skipVerify)
    \/ Draft
    \/ Verify
    \/ Notify
    \/ Save
    \/ EndRun
    \/ Interrupt
    \/ \E slug \in FileNames : ApproveOne(slug)
    \/ ApproveAllPending

Spec == Init /\ [][Next]_vars

\* ------------------------------------------------------------------------
\* Public entry store (src/data/concepts.ts)
\* ------------------------------------------------------------------------

\* readConceptFile: undefined (NoFile) when there is no such file, else the
\* parsed entry with its slug overwritten by the file name.
readConceptFile(store, slug) ==
    IF ~store[slug].exists THEN NoFile ELSE [store[slug] EXCEPT !.slug = slug]

readAllSlugsFromDisk(store) == Listed(store)

loadAllConceptFiles(store) ==
    {readConceptFile(store, slug) : slug \in readAllSlugsFromDisk(store)}

isPublishableLax(concept) == TRUE

isPublishable(concept) == concept.verificationStatus # "pending"

\* The set is empty for `undefined`, else it holds the one concept returned.
getConceptBySlug(store, slug) ==
    LET concept == readConceptFile(store, slug)
    IN  IF ~concept.exists THEN {}
        ELSE IF isPublishable(concept) THEN {concept} ELSE {}

getAllConcepts(store, includeUnverified) ==
    LET all == loadAllConceptFiles(store)
    IN  IF includeUnverified THEN all ELSE {c \in all : isPublishable(c)}

getAllSlugs(store, includeUnverified) ==
    IF includeUnverified THEN readAllSlugsFromDisk(store)
    ELSE {c.slug : c \in {d \in loadAllConceptFiles(store) : isPublishable(d)}}

getConceptsByCategory(store, categorySlug, includeUnverified) ==
    LET all == {c \in loadAllConceptFiles(store) : c.categorySlug = categorySlug}
    IN  IF includeUnverified THEN all ELSE {c \in all : isPublishable(c)}

\* The calls, as the pages and the admin scripts make them.
CallGetConceptBySlug(slug) ==
    /\ reply' = [NoReply EXCEPT !.fn = "getConceptBySlug", !.slug = slug,
                                !.concepts = getConceptBySlug(content, slug)]
    /\ UNCHANGED <<queueFile, queue, content, pc, flags, selection, toProcess, idx,
                   cur, tries, lastWrite, lastFailure>>

CallGetAllConcepts(includeUnverified) ==
    /\ reply' = [NoReply EXCEPT !.fn = "getAllConcepts",
                                !.includeUnverified = includeUnverified,
                                !.concepts = getAllConcepts(content, includeUnverified)]
    /\ UNCHANGED <<queueFile, queue, content, pc, flags, selection, toProcess, idx,
                   cur, tries, lastWrite, lastFailure>>

CallGetAllSlugs(includeUnverified) ==
    /\ reply' = [NoReply EXCEPT !.fn = "getAllSlugs",
                                !.includeUnverified = includeUnverified,
                                !.slugs = getAllSlugs(content, includeUnverified)]
    /\ UNCHANGED <<queueFile, queue, content, pc, flags, selection, toProcess, idx,
                   cur, tries, lastWrite, lastFailure>>

CallGetConceptsByCategory(categorySlug, includeUnverified) ==
    /\ reply' = [NoReply EXCEPT !.fn = "getConceptsByCategory",
                                !.categorySlug = categorySlug,
                                !.includeUnverified = includeUnverified,
                                !.concepts = getConceptsByCategory(content, categorySlug,
                                                                   includeUnverified)]
    /\ UNCHANGED <<queueFile, queue, content, pc, flags, selection, toProcess, idx,
                   cur, tries, lastWrite, lastFailure>>

\* The entries a content file may hold: written by a generator (with a status)
\* or by hand (without one), with or without a slug of its own inside.
StoreCategories == {"cannabinoids", "research-and-development"}

StoreEntries ==
    {NoFile} \cup
    { [exists |-> TRUE, verificationStatus |-> st, needsHumanReview |-> (st = "pending"),
       slug |-> sl, categorySlug |-> cat] :
        st \in {"none", "pending", "verified"},
        sl \in {<<>>, ItemSlug(1)},
        cat \in StoreCategories }

\* The content directory as found on disk: any entry in the two ordinary
\* files; the underscore-prefixed and the Hebrew-named file vary in existence
\* and status only, which is all the listing functions read of them.
InitStore ==
    /\ content \in [FileNames -> StoreEntries]
    /\ content[<<"_", "t">>].categorySlug # "cannabinoids"
    /\ content[slugify(ItemName(2))].slug = <<>>
    /\ content[slugify(ItemName(2))].categorySlug # "cannabinoids"
    /\ queueFile = [i \in Items |-> NewItem]
    /\ queue = [i \in Items |-> NewItem]
    /\ pc = "idle"
    /\ flags = NoFlags
    /\ selection = NoSelection
    /\ toProcess = <<>>
    /\ idx = 1
    /\ cur = NoCur
    /\ tries = [i \in Items |-> 0]
    /\ lastWrite = NoWrite
    /\ lastFailure = NoFailure
    /\ reply = NoReply

NextStore ==
    \/ \E slug \in FileNames : CallGetConceptBySlug(slug)
    \/ \E includeUnverified \in BOOLEAN : CallGetAllConcepts(includeUnverified)
    \/ \E includeUnverified \in BOOLEAN : CallGetAllSlugs(includeUnverified)
    \/ \E categorySlug \in StoreCategories, includeUnverified \in BOOLEAN :
          CallGetConceptsByCategory(categorySlug, includeUnverified)
    \/ \E slug \in FileNames : ApproveOne(slug)
    \/ ApproveAllPending

SpecStore == InitStore /\ [][NextStore]_vars

\* ------------------------------------------------------------------------
\* Properties
\* ------------------------------------------------------------------------

Saved == lastWrite.item # 0

GatePasses(w) ==
    /\ JsGe(w.confidenceScore, Num(85))
    /\ w.riskLevel # "high"
    /\ w.hasCombinedContext

\* C1: every entry the driver saves after a fact-check is `verified` exactly
\* when the confidence is at least 0.85, the risk is not high and the combined
\* context was non-empty; otherwise it is `pending` with needsHumanReview set.
C1_VerifiedIffGate ==
    Saved /\ lastWrite.fcRan =>
        /\ (lastWrite.verificationStatus = "verified") <=> GatePasses(lastWrite)
        /\ ~GatePasses(lastWrite) =>
              /\ lastWrite.verificationStatus = "pending"
              /\ lastWrite.needsHumanReview

C3_FailClosed ==
    /\ cur.fcFailed =>
          /\ pc \in {"notify", "save"}
          /\ cur.confidenceScore = Num(50)
          /\ cur.unverifiedClaims = <<PLACEHOLDER>>
          /\ cur.riskLevel = "high"
          /\ cur.verificationStatus = "pending"
          /\ cur.needsHumanReview
    /\ Saved /\ lastWrite.fcFailed =>
          /\ lastWrite.verificationStatus = "pending"
          /\ content[lastWrite.slug].verificationStatus = "pending"
          /\ queueFile[lastWrite.item].status = "completed"

C3_Witness ==
    /\ Saved
    /\ lastWrite.fcFailed
    /\ lastWrite.hasCombinedContext
    /\ content[lastWrite.slug].verificationStatus = "pending"

PendingFiles == {f \in Listed(content) : content[f].verificationStatus = "pending"}

\* C4: without the opt-in flag getConceptBySlug, getAllConcepts, getAllSlugs and
\* getConceptsByCategory never return a pending entry, and a slug whose file is
\* pending is not found; with includeUnverified the listing functions do
\* return every pending entry of the directory listing.
C4_PendingHidden ==
    /\ reply.fn = "getConceptBySlug" =>
          /\ \A c \in reply.concepts : c.verificationStatus # "pending"
          /\ content[reply.slug].verificationStatus = "pending" => reply.concepts = {}
          /\ content[reply.slug].exists /\ content[reply.slug].verificationStatus # "pending"
                => reply.concepts # {}
    /\ reply.fn \in {"getAllConcepts", "getConceptsByCategory"} /\ ~reply.includeUnverified =>
          \A c \in reply.concepts :
              /\ c.verificationStatus # "pending"
              /\ content[c.slug].verificationStatus # "pending"
    /\ reply.fn = "getAllSlugs" /\ ~reply.includeUnverified =>
          \A f \in reply.slugs : content[f].verificationStatus # "pending"
    /\ reply.fn = "getAllConcepts" /\ reply.includeUnverified =>
          \A f \in PendingFiles :
              \E c \in reply.concepts : c.slug = f /\ c.verificationStatus = "pending"
    /\ reply.fn = "getAllSlugs" /\ reply.includeUnverified =>
          PendingFiles \subseteq reply.slugs
    /\ reply.fn = "getConceptsByCategory" /\ reply.includeUnverified =>
          \A f \in PendingFiles :
              content[f].categorySlug = reply.categorySlug =>
                  \E c \in reply.concepts : c.slug = f /\ c.verificationStatus = "pending"

C4_Witness ==
    /\ reply.fn = "getConceptBySlug"
    /\ content[reply.slug].exists
    /\ content[reply.slug].verificationStatus = "pending"
    /\ reply.concepts = {}

\* C5: once a file's entry is verified, no step of the bulk driver, of the
\* fact-check gate or of the approval tool leaves that file with another status.
C5_VerifiedTerminal ==
    [][\A f \in FileNames :
          content[f].exists /\ content[f].verificationStatus = "verified"
            => content'[f].verificationStatus = "verified"]_vars

\* C6: approveConcept on an entry that is not yet verified leaves it verified
\* with needsHumanReview false; on a verified entry it returns true and leaves
\* the file as it was; approving once more after any approval returns true and
\* changes nothing in the store.
C6_ApproveIdempotent ==
    reply.fn = "approveConcept" =>
        /\ reply.ok <=> reply.prior.exists
        /\ reply.ok =>
              /\ content[reply.slug].verificationStatus = "verified"
              /\ reply.prior.verificationStatus # "verified" =>
                    content[reply.slug] =
                        [reply.prior EXCEPT !.verificationStatus = "verified",
                                            !.needsHumanReview = FALSE]
              /\ reply.prior.verificationStatus = "verified" =>
                    content[reply.slug] = reply.prior
              /\ approveConcept(content, reply.slug) = [ok |-> TRUE, store |-> content]

C6_Witness ==
    /\ reply.fn = "approveConcept"
    /\ reply.ok
    /\ reply.prior.verificationStatus = "pending"
    /\ reply.prior.needsHumanReview
    /\ content[reply.slug].verificationStatus = "verified"

\* C7: when the review notification is attempted for an entry, the entry file
\* carrying its pending status is already in the content store.
C7_PersistedBeforeNotify ==
    pc = "notify" =>
        /\ content[cur.slug].exists
        /\ content[cur.slug].verificationStatus = cur.verificationStatus

Remaining ==
    IF pc = "idle" THEN {}
    ELSE {toProcess[k] : k \in {j \in 1..Len(toProcess) : j > idx \/ (j = idx /\ pc = "loop")}}

\* C8: an item that starts with attempts = 0 is attempted at most MAX_ATTEMPTS
\* times over any sequence of runs: its counter never passes 3, after the third
\* failed attempt it is `failed`, and it is never again among the items a run
\* is still going to process.
C8_AttemptsCapped ==
    \A i \in Items :
        /\ tries[i] <= MAX_ATTEMPTS
        /\ queue[i].attempts <= MAX_ATTEMPTS
        /\ queueFile[i].attempts <= MAX_ATTEMPTS
        /\ queueFile[i].attempts = MAX_ATTEMPTS /\ queueFile[i].status # "completed"
              => queueFile[i].status = "failed"
        /\ tries[i] >= MAX_ATTEMPTS => i \notin Remaining

C8_Witness ==
    \E i \in Items :
        /\ tries[i] = MAX_ATTEMPTS
        /\ queueFile[i].status = "failed"
        /\ pc = "loop"
        /\ idx = 1
        /\ selection.retryFailed

\* C9: after a failed attempt the item's lastError is the error message and its
\* status is `pending` while attempts are below MAX_ATTEMPTS and `failed`
\* otherwise, on disk as in memory; it is never left `completed`.
C9_FailureRecorded ==
    lastFailure.item # 0 =>
        LET it == queueFile[lastFailure.item]
        IN  /\ it.lastError = lastFailure.msg
            /\ it.status = IF it.attempts >= MAX_ATTEMPTS THEN "failed" ELSE "pending"
            /\ it.status # "completed"
            /\ it.attempts = tries[lastFailure.item]
            /\ queue[lastFailure.item] = it

C9_Witness ==
    /\ lastFailure.item # 0
    /\ lastFailure.msg = "EACCES: permission denied"
    /\ queueFile[lastFailure.item].status = "failed"

\* C10: a run started with --retry-failed takes up again the items the driver
\* marked failed (those of the category asked for).
C10_RetryTakesFailed ==
    pc = "loop" /\ idx = 1 /\ selection.retryFailed =>
        \A i \in Items :
            /\ queue[i].status = "failed"
            /\ selection.categoryFilter \in {"", ItemCategory(i)}
            => \E k \in 1..Len(selection.candidates) : selection.candidates[k] = i

\* C11: the queue file is written with the item's new status, attempts and
\* lastError when the item finishes and before the next one starts, so between
\* items the file equals the driver's queue and holds every attempt made; an
\* attempt is only ever started on an item the file does not show completed.
C11_ProgressPersisted ==
    [][/\ \A i \in Items :
            tries'[i] > tries[i] =>
                /\ queueFile[i].status # "completed"
                /\ queueFile[i].attempts = tries[i]
       /\ pc' \in {"loop", "idle"} =>
            /\ queueFile' = queue'
            /\ \A i \in Items : queueFile'[i].attempts = tries'[i]
       /\ pc \in {"verify", "notify", "save"} /\ pc' = "loop" =>
            /\ queueFile'[cur.item].attempts = queueFile[cur.item].attempts + 1
            /\ queueFile'[cur.item].status \in {"completed", "pending", "failed"}
            /\ queueFile'[cur.item].status = "completed" <=> lastWrite'.item = cur.item
            /\ queueFile'[cur.item].status # "completed" <=> lastFailure'.item = cur.item
      ]_vars

C11_Witness ==
    /\ pc = "verify"
    /\ cur.item = 2
    /\ tries[2] = 2
    /\ queueFile[2].attempts = 1
    /\ queueFile[2].lastError # "null"
    /\ queueFile[1].status = "completed"

\* C12: a 429 / 500 / 503 met by any network collaborator of an item is
\* followed by a backoff of delay x 2^(attempts - 1) before the driver goes on:
\* after a failed attempt whose error carries such a code, and equally after an
\* item during which the alias generator was rate-limited.
C12_BackoffOnAnySignal ==
    /\ lastFailure.item # 0 /\ IsTransient(lastFailure.msg) =>
          lastFailure.slept = delaySeconds * Pow2(tries[lastFailure.item] - 1)
    /\ Saved /\ lastWrite.rateLimited =>
          lastWrite.slept = delaySeconds * Pow2(tries[lastWrite.item] - 1)

ChannelErrors ==
    {fetchWikipediaContext(r).msg : r \in ChannelResponses} \cup
    {fetchLiveMagazineContext(r).msg : r \in ChannelResponses} \cup
    {fetchGoogleSearchContext(r).msg : r \in ChannelResponses}

\* C13: whatever a request of the wiki, live-magazine or web-search channel
\* meets (no connection, timeout, non-OK status, a body of the wrong kind), the
\* channel hands back the empty context, so no failed attempt of an item
\* carries an error thrown by a context channel.
C13_NoAttemptLostToChannel ==
    lastFailure.item # 0 => lastFailure.msg \notin ChannelErrors \ {"null"}

\* C14: an attempt that ends because the drafted text is not JSON leaves the
\* raw text in a side file: the step that records the failure also writes a
\* file of the content directory.
C14_RawOutputKept ==
    [][tries' # tries /\ lastFailure'.msg = "JSON parse failed"
         => \E f \in FileNames : content'[f] # content[f]]_vars

\* ------------------------------------------------------------------------
\* Archive retriever (rag-retriever.ts): term expansion
\* ------------------------------------------------------------------------

\* Longest raw term tried.
MaxTermLen == 5

TermAlphabet == {"a", "A", " ", "-", "/", "(", ")"}

Range(seq) == {seq[k] : k \in 1..Len(seq)}

\* String.prototype.toLowerCase
LowerCase(str) == [k \in 1..Len(str) |-> IF str[k] = "A" THEN "a" ELSE str[k]]

\* String.prototype.trim
RECURSIVE TrimStart(_)
TrimStart(str) ==
    IF str # <<>> /\ Head(str) = " " THEN TrimStart(Tail(str)) ELSE str

RECURSIVE TrimEnd(_)
TrimEnd(str) ==
    IF str # <<>> /\ str[Len(str)] = " "
    THEN TrimEnd(SubSeq(str, 1, Len(str) - 1)) ELSE str

Trim(str) == TrimEnd(TrimStart(str))

\* String.prototype.indexOf, from 1; 0 when the pattern does not occur.
IndexOf(str, pat) ==
    LET hits == {k \in 1..(Len(str) - Len(pat) + 1) :
                    SubSeq(str, k, k + Len(pat) - 1) = pat}
    IN  IF hits = {} THEN 0 ELSE CHOOSE k \in hits : \A h \in hits : k <= h

\* String.prototype.split with a non-empty separator.
RECURSIVE Split(_, _)
Split(str, sep) ==
    LET at == IndexOf(str, sep)
    IN  IF at = 0 THEN <<str>>
        ELSE <<SubSeq(str, 1, at - 1)>> \o Split(SubSeq(str, at + Len(sep), Len(str)), sep)

\* The leftmost match of /\(([^)]+)\)/: an opening parenthesis, one or more
\* characters other than ")", then ")". <<0, 0>> when there is none.
ParenMatch(str) ==
    LET closes(i) == {j \in (i + 1)..Len(str) : str[j] = ")"}
        close(i) == CHOOSE j \in closes(i) : \A h \in closes(i) : j <= h
        opens == {i \in 1..Len(str) :
                    str[i] = "(" /\ closes(i) # {} /\ close(i) >= i + 2}
    IN  IF opens = {} THEN <<0, 0>>
        ELSE LET i == CHOOSE o \in opens : \A h \in opens : o <= h
             IN  <<i, close(i)>>

\* [...new Set(list)]: first occurrences, in order.
RECURSIVE Unique(_)
Unique(list) ==
    IF list = <<>> THEN <<>>
    ELSE LET front == Unique(SubSeq(list, 1, Len(list) - 1))
             last == list[Len(list)]
         IN  IF last \in Range(front) THEN front ELSE Append(front, last)

\* The terms one raw string contributes, before the final filter.
TermsOf(item) ==
    LET base == Trim(LowerCase(item))
        m == ParenMatch(base)
        paren == IF m[1] = 0 THEN <<>>
                 ELSE << Trim(SubSeq(base, m[1] + 1, m[2] - 1)),
                         Trim(SubSeq(base, 1, m[1] - 1) \o SubSeq(base, m[2] + 1, Len(base))) >>
        dash == IF IndexOf(base, <<" ", "-", " ">>) # 0
                THEN [k \in 1..Len(Split(base, <<" ", "-", " ">>)) |->
                        Trim(Split(base, <<" ", "-", " ">>)[k])]
                ELSE <<>>
        slash == IF IndexOf(base, <<"/">>) # 0
                 THEN [k \in 1..Len(Split(base, <<"/">>)) |-> Trim(Split(base, <<"/">>)[k])]
                 ELSE <<>>
    IN  IF Len(base) < 2 THEN <<>> ELSE <<base>> \o paren \o dash \o slash

RECURSIVE CollectTerms(_)
CollectTerms(raw) ==
    IF raw = <<>> THEN <<>> ELSE TermsOf(Head(raw)) \o CollectTerms(Tail(raw))

expandTerms(raw) ==
    Unique(SelectSeq(CollectTerms(raw), LAMBDA t : Len(t) >= 2))

RawTerms == UNION {[1..n -> TermAlphabet] : n \in 0..MaxTermLen}

\* The factory at rest: every variable but `reply` as Init leaves it.
AtRest ==
    /\ queueFile = [i \in Items |-> NewItem]
    /\ queue = [i \in Items |-> NewItem]
    /\ content = [f \in FileNames |-> NoFile]
    /\ pc = "idle"
    /\ flags = NoFlags
    /\ selection = NoSelection
    /\ toProcess = <<>>
    /\ idx = 1
    /\ cur = NoCur
    /\ tries = [i \in Items |-> 0]
    /\ lastWrite = NoWrite
    /\ lastFailure = NoFailure

RestUnchanged ==
    UNCHANGED <<queueFile, queue, content, pc, flags, selection, toProcess, idx,
                cur, tries, lastWrite, lastFailure>>

InitTerms ==
    /\ AtRest
    /\ \E str \in RawTerms : reply = [fn |-> "", raw |-> <<str>>, terms |-> <<>>]

\* expandTerms(raw)
CallExpandTerms ==
    /\ reply.fn = ""
    /\ reply' = [reply EXCEPT !.fn = "expandTerms", !.terms = expandTerms(reply.raw)]
    /\ RestUnchanged

\* expandTerms on a list expandTerms returned.
CallExpandTermsAgain ==
    /\ reply.fn = "expandTerms"
    /\ reply' = [reply EXCEPT !.fn = "expandTerms twice", !.raw = reply.terms,
                              !.terms = expandTerms(reply.terms)]
    /\ RestUnchanged

NextTerms == CallExpandTerms \/ CallExpandTermsAgain

SpecTerms == InitTerms /\ [][NextTerms]_vars

\* C18: a second pass of expandTerms over its own output yields the same set
\* of terms, and no pass emits a term shorter than 2 characters or a term twice.
C18_ExpandTermsIdempotent ==
    /\ reply.fn = "expandTerms twice" => Range(reply.terms) = Range(reply.raw)
    /\ reply.fn # "" =>
          /\ \A k \in 1..Len(reply.terms) : Len(reply.terms[k]) >= 2
          /\ \A k, h \in 1..Len(reply.terms) : reply.terms[k] = reply.terms[h] => k = h

\* ------------------------------------------------------------------------
\* Archive retriever (rag-retriever.ts): scoring
\* ------------------------------------------------------------------------

\* An archive article as the scorer and the chunker read it: `title` is the
\* set of terms the lower-cased title includes, `occurrences` the number of
\* times each term occurs in the lower-cased content, `year` the year of its
\* date, `paragraphs` the paragraphs longer than 30 characters (words and
\* characters of each), `wordCount` and `chars` the words and characters of
\* the whole content. Scores are kept in thousandths, multipliers in tenths.
SearchTerms == {"thc", "terpenes"}

Occurrences == {0, 1, 3, 11}

Years == {2000, 2012, 2020}

Min2(a, b) == IF a <= b THEN a ELSE b

\* titleLower.includes(term)
TitlePoints(article, term) == IF term \in article.title THEN 100 ELSE 0

\* Math.min(contentOccurrences * 2, 20)
ContentPoints(article, term) == Min2(article.occurrences[term] * 2, 20)

\* What one loop over a term list adds to titleTagScore.
RECURSIVE TitleScore(_, _)
TitleScore(article, terms) ==
    IF terms = <<>> THEN 0
    ELSE TitlePoints(article, Head(terms)) + TitleScore(article, Tail(terms))

\* What one loop over a term list adds to contentScore.
RECURSIVE ContentScore(_, _)
ContentScore(article, terms) ==
    IF terms = <<>> THEN 0
    ELSE ContentPoints(article, Head(terms)) + ContentScore(article, Tail(terms))

Matches(article, terms) ==
    \E k \in 1..Len(terms) :
        terms[k] \in article.title \/ article.occurrences[terms[k]] > 0

\* 1 + (year - 2010) * 0.1, in tenths
recencyMultiplier(year) == 10 + (year - 2010)

\* titleTagScore === 0 ? 0.5 : 1, in tenths
prPenalty(titleTagScore) == IF titleTagScore = 0 THEN 5 ELSE 10

broadPenaltyAnyBroad(hasSpecificMatch, hasBroadMatch) ==
    IF hasBroadMatch THEN 3 ELSE 10

\* !hasSpecificMatch && hasBroadMatch ? 0.3 : 1, in tenths
broadPenalty(hasSpecificMatch, hasBroadMatch) ==
    IF ~hasSpecificMatch /\ hasBroadMatch THEN 3 ELSE 10

scoreArticle(article, specificTerms, broadTerms) ==
    LET titleTagScore ==
            TitleScore(article, specificTerms) + TitleScore(article, broadTerms)
        contentScore ==
            ContentScore(article, specificTerms) + ContentScore(article, broadTerms)
        densityBoost ==
            IF \E k \in 1..Len(specificTerms) :
                  article.occurrences[specificTerms[k]] >= 3
            THEN 40 ELSE 0
        hasSpecificMatch == Matches(article, specificTerms)
        hasBroadMatch == Matches(article, broadTerms)
        baseScore == titleTagScore + contentScore + densityBoost
    IN  IF baseScore = 0
        THEN [article |-> article, titleTagScore |-> 0, contentScore |-> 0,
              baseScore |-> 0, recencyMultiplier |-> 10, prPenalty |-> 10,
              broadPenalty |-> 10, finalScore |-> 0, isSpecific |-> FALSE]
        ELSE [article |-> article, titleTagScore |-> titleTagScore,
              contentScore |-> contentScore, baseScore |-> baseScore,
              recencyMultiplier |-> recencyMultiplier(article.year),
              prPenalty |-> prPenalty(titleTagScore),
              broadPenalty |-> broadPenalty(hasSpecificMatch, hasBroadMatch),
              finalScore |-> baseScore * recencyMultiplier(article.year)
                             * prPenalty(titleTagScore)
                             * broadPenalty(hasSpecificMatch, hasBroadMatch),
              isSpecific |-> hasSpecificMatch]

ScoredArticles ==
    [id : {1}, year : Years, title : SUBSET SearchTerms,
     occurrences : [SearchTerms -> Occurrences], paragraphs : {<<>>}]

TermLists == {<<>>, <<"thc">>, <<"terpenes">>}

InitScore ==
    /\ AtRest
    /\ \E article \in ScoredArticles, specificTerms \in TermLists, broadTerms \in TermLists :
          reply = [fn |-> "", article |-> article, specificTerms |-> specificTerms,
                   broadTerms |-> broadTerms, score |-> scoreArticle(article, <<>>, <<>>)]

CallScoreArticle ==
    /\ reply.fn = ""
    /\ reply' = [reply EXCEPT
                   !.fn = "scoreArticle",
                   !.score = scoreArticle(reply.article, reply.specificTerms,
                                          reply.broadTerms)]
    /\ RestUnchanged

NextScore == CallScoreArticle

SpecScore == InitScore /\ [][NextScore]_vars

\* C19: for an article whose base score is not 0, the final score is base x
\* recency x prPenalty x broadPenalty, with recency 1 + (year - 2010) x 0.1,
\* prPenalty 0.5 exactly when the title sub-score is 0 and broadPenalty 0.3
\* exactly when a broad term matched and no specific term did; with both
\* penalties the final score is base x recency x 0.5 x 0.3.
C19_FinalScoreFormula ==
    reply.fn = "scoreArticle" /\ reply.score.baseScore # 0 =>
        LET sc == reply.score
            titleHit == \E t \in Range(reply.specificTerms) \cup Range(reply.broadTerms) :
                            t \in reply.article.title
            specificHit == \E t \in Range(reply.specificTerms) :
                               t \in reply.article.title \/ reply.article.occurrences[t] > 0
            broadHit == \E t \in Range(reply.broadTerms) :
                            t \in reply.article.title \/ reply.article.occurrences[t] > 0
            tenths(year) == 10 + year - 2010
        IN  /\ sc.baseScore = sc.titleTagScore + sc.contentScore
                                + (IF \E t \in Range(reply.specificTerms) :
                                         reply.article.occurrences[t] >= 3
                                   THEN 40 ELSE 0)
            /\ sc.titleTagScore = 0 <=> ~titleHit
            /\ sc.prPenalty = (IF ~titleHit THEN 5 ELSE 10)
            /\ sc.broadPenalty = (IF broadHit /\ ~specificHit THEN 3 ELSE 10)
            /\ sc.recencyMultiplier = tenths(reply.article.year)
            /\ sc.finalScore = sc.baseScore * tenths(reply.article.year)
                                 * sc.prPenalty * sc.broadPenalty
            /\ ~titleHit /\ broadHit /\ ~specificHit =>
                  sc.finalScore = sc.baseScore * tenths(reply.article.year) * 5 * 3

C19_Witness ==
    /\ reply.fn = "scoreArticle"
    /\ reply.score.baseScore # 0
    /\ reply.score.prPenalty = 5
    /\ reply.score.broadPenalty = 3
    /\ reply.article.year = 2020
    /\ reply.score.finalScore = reply.score.baseScore * 20 * 5 * 3

\* ------------------------------------------------------------------------
\* Archive retriever (rag-retriever.ts): chunking and retrieve
\* ------------------------------------------------------------------------

MIN_WORD_COUNT == 50

MAX_CHUNKS_PER_ARTICLE == 3

CHUNK_TARGET_WORDS == 400

maxArticlesDefault == 15

maxTotalChunksDefault == 25

\* Most articles in an archive tried.
MaxArchive == 3

\* A paragraph that passed the noise filter: its words and its characters.
Para(words) == [words |-> words, chars |-> words * 6]

\* currentChunk.trim(): the text being filled without its trailing "\n\n".
TrimmedChunk(current) == [wordCount |-> current.words, chars |-> current.chars - 2]

\* The for loop of chunkArticle over the paragraphs left, with the chunks
\* closed so far and the words and characters of the chunk being filled.
RECURSIVE ChunkLoop(_, _, _)
ChunkLoop(paragraphs, chunks, current) ==
    IF paragraphs = <<>>
    THEN IF current.chars > 0 /\ Len(chunks) < MAX_CHUNKS_PER_ARTICLE
         THEN Append(chunks, TrimmedChunk(current)) ELSE chunks
    ELSE LET para == Head(paragraphs)
             filled == [words |-> current.words + para.words,
                        chars |-> current.chars + para.chars + 2]
             fresh == [words |-> para.words, chars |-> para.chars + 2]
         IN  IF current.words + para.words > CHUNK_TARGET_WORDS /\ current.chars > 0
             THEN IF Len(chunks) + 1 >= MAX_CHUNKS_PER_ARTICLE
                  THEN Append(chunks, TrimmedChunk(current))
                  ELSE ChunkLoop(Tail(paragraphs), Append(chunks, TrimmedChunk(current)), fresh)
             ELSE ChunkLoop(Tail(paragraphs), chunks, filled)

\* content.slice(0, n): the first n characters of a text of `chars` characters.
Slice(chars, n) == IF chars < n THEN chars ELSE n

chunkArticleEmptyFallback(article) ==
    IF article.paragraphs = <<>> THEN <<>>
    ELSE ChunkLoop(article.paragraphs, <<>>, [words |-> 0, chars |-> 0])

\* chunkArticle: the chunks of an article, each with its words and its
\* characters; an article without a usable paragraph gives one chunk, its
\* whole content.
chunkArticle(article) ==
    IF article.paragraphs = <<>>
    THEN <<[wordCount |-> article.wordCount, chars |-> article.chars]>>
    ELSE LET chunks == ChunkLoop(article.paragraphs, <<>>, [words |-> 0, chars |-> 0])
         IN  IF Len(chunks) > 0 THEN chunks
             ELSE <<[wordCount |-> article.wordCount,
                     chars |-> Slice(article.chars, CHUNK_TARGET_WORDS * 6)]>>

\* Array.prototype.sort with a comparator (a, b) => key(a) - key(b) over
\* numbers: ascending by key, and stable. keys[k] is the key of seq[k].
SortedByKey(seq, keys) ==
    LET Insert(sorted, n) ==
            LET later == {k \in 1..Len(sorted) : keys[n] < keys[sorted[k]]}
                at == IF later = {} THEN Len(sorted) + 1
                      ELSE CHOOSE k \in later : \A h \in later : k <= h
            IN  SubSeq(sorted, 1, at - 1) \o <<n>> \o SubSeq(sorted, at, Len(sorted))
        upTo[n \in 0..Len(seq)] ==
            IF n = 0 THEN <<>> ELSE Insert(upTo[n - 1], n)
    IN  [k \in 1..Len(seq) |-> seq[upTo[Len(seq)][k]]]

isScoredLax(score) == score.finalScore >= 0

\* .filter((s) => s.finalScore > 0)
isScored(score) == score.finalScore > 0

\* The nested loops of step 4 over the selected articles left.
RECURSIVE ChunkSelected(_, _, _)
ChunkSelected(entries, allChunks, maxTotalChunks) ==
    IF entries = <<>> THEN allChunks
    ELSE LET article == Head(entries).article
             textChunks == chunkArticle(article)
             pushed[n \in 0..Len(textChunks)] ==
                 IF n = 0 THEN allChunks
                 ELSE IF n > 1 /\ Len(pushed[n - 1]) >= maxTotalChunks
                 THEN pushed[n - 1]
                 ELSE Append(pushed[n - 1],
                             [articleId |-> article.id, articleUrl |-> article.link,
                              articleDate |-> article.year, chunkIndex |-> n - 1,
                              wordCount |-> textChunks[n].wordCount])
             after == pushed[Len(textChunks)]
         IN  IF Len(after) >= maxTotalChunks THEN after
             ELSE ChunkSelected(Tail(entries), after, maxTotalChunks)

sortChronologicalSkipped(allChunks) == allChunks

\* allChunks.sort((a, b) => date(a) - date(b))
sortChronological(allChunks) ==
    SortedByKey(allChunks, [k \in 1..Len(allChunks) |-> allChunks[k].articleDate])

buildSourcesPerChunk(allChunks) ==
    [k \in 1..Len(allChunks) |->
        [url |-> allChunks[k].articleUrl, date |-> allChunks[k].articleDate]]

\* sourceMap: one source per articleId, in the order the ids first appear.
buildSources(allChunks) ==
    LET ids == Unique([k \in 1..Len(allChunks) |-> allChunks[k].articleId])
        first(id) == CHOOSE k \in 1..Len(allChunks) :
                        /\ allChunks[k].articleId = id
                        /\ \A h \in 1..(k - 1) : allChunks[h].articleId # id
    IN  [n \in 1..Len(ids) |->
            [url |-> allChunks[first(ids[n])].articleUrl,
             date |-> allChunks[first(ids[n])].articleDate]]

\* retrieve, from the loaded archive and the expanded term lists on.
retrieve(archive, specificTerms, broadExpanded, maxArticles, maxTotalChunks) ==
    LET scores == [k \in 1..Len(archive) |->
                     scoreArticle(archive[k], specificTerms, broadExpanded)]
        kept == SelectSeq(scores, isScored)
        scored == SortedByKey(kept, [k \in 1..Len(kept) |-> 0 - kept[k].finalScore])
        topArticles == SubSeq(scored, 1, Min2(maxArticles, Len(scored)))
        allChunks == sortChronological(ChunkSelected(topArticles, <<>>, maxTotalChunks))
    IN  [totalArticlesScanned |-> Len(archive),
         matchedArticles |-> Len(topArticles),
         chunks |-> allChunks,
         sources |-> buildSources(allChunks)]

\* Archive files as the archive fetcher writes them: one per post id, each
\* with the post's own link and date.
ArchiveArticle(id) ==
    CASE id = 1 -> [id |-> 1, link |-> <<"post", 1>>, year |-> 2020, title |-> {"thc"},
                    occurrences |-> [t \in SearchTerms |-> IF t = "thc" THEN 3 ELSE 0],
                    paragraphs |-> <<Para(300), Para(300), Para(300)>>,
                    wordCount |-> 900, chars |-> 5404]
      [] id = 2 -> [id |-> 2, link |-> <<"post", 2>>, year |-> 2012, title |-> {},
                    occurrences |-> [t \in SearchTerms |-> IF t = "thc" THEN 1 ELSE 0],
                    paragraphs |-> <<Para(150)>>,
                    wordCount |-> 150, chars |-> 900]
      [] id = 3 -> [id |-> 3, link |-> <<"post", 3>>, year |-> 2012, title |-> {"terpenes"},
                    occurrences |-> [t \in SearchTerms |-> 0],
                    paragraphs |-> <<>>,
                    wordCount |-> 50, chars |-> 300]
      [] id = 4 -> [id |-> 4, link |-> <<"post", 4>>, year |-> 2020, title |-> {},
                    occurrences |-> [t \in SearchTerms |-> 0],
                    paragraphs |-> <<Para(150), Para(150)>>,
                    wordCount |-> 300, chars |-> 1802]
      [] id = 5 -> [id |-> 5, link |-> <<"post", 5>>, year |-> 2000, title |-> {"thc"},
                    occurrences |-> [t \in SearchTerms |-> 1],
                    paragraphs |-> <<Para(150)>>,
                    wordCount |-> 150, chars |-> 900]
      [] OTHER  -> [id |-> id, link |-> <<"post", id>>, year |-> 2016, title |-> {"thc"},
                    occurrences |-> [t \in SearchTerms |-> 0],
                    paragraphs |-> <<Para(300), Para(300)>>,
                    wordCount |-> 600, chars |-> 3602]

ArchiveIds == 1..6

Archives ==
    {a \in UNION {[1..n -> ArchiveIds] : n \in 0..MaxArchive} :
        \A k, h \in 1..Len(a) : a[k] = a[h] => k = h}

InitRetrieve ==
    /\ AtRest
    /\ \E ids \in Archives,
          maxArticles \in {0, 1, 2, maxArticlesDefault},
          maxTotalChunks \in {0, 1, 3, maxTotalChunksDefault} :
          reply = [fn |-> "",
                   archive |-> [k \in 1..Len(ids) |-> ArchiveArticle(ids[k])],
                   maxArticles |-> maxArticles, maxTotalChunks |-> maxTotalChunks,
                   result |-> retrieve(<<>>, <<>>, <<>>, 0, 0)]

\* retrieve(name, aliases, broadTerms, maxArticles, maxTotalChunks) for a
\* concept whose terms expand to "thc" and whose category term is "terpenes".
CallRetrieve ==
    /\ reply.fn = ""
    /\ reply' = [reply EXCEPT
                   !.fn = "retrieve",
                   !.result = retrieve(reply.archive, <<"thc">>, <<"terpenes">>,
                                       reply.maxArticles, reply.maxTotalChunks)]
    /\ RestUnchanged

NextRetrieve == CallRetrieve

SpecRetrieve == InitRetrieve /\ [][NextRetrieve]_vars

C16_SourcesDeduplicated ==
    reply.fn = "retrieve" =>
        LET src == reply.result.sources
            ch == reply.result.chunks
            firstAt(url) == CHOOSE k \in 1..Len(ch) :
                               /\ ch[k].articleUrl = url
                               /\ \A h \in 1..(k - 1) : ch[h].articleUrl # url
        IN  /\ \A i, j \in 1..Len(src) : src[i].url = src[j].url => i = j
            /\ {src[i].url : i \in 1..Len(src)} = {ch[k].articleUrl : k \in 1..Len(ch)}
            /\ \A i, j \in 1..Len(src) : i < j => firstAt(src[i].url) < firstAt(src[j].url)

C16_Witness ==
    /\ reply.fn = "retrieve"
    /\ Len(reply.result.sources) = 2
    /\ Len(reply.result.chunks) = 4

\* C17: an article that matches no term (base score 0) gets final score 0
\* whatever its year, and has no chunk and no source in what retrieve returns.
C17_ZeroBaseExcluded ==
    reply.fn = "retrieve" =>
        \A n \in 1..Len(reply.archive) :
            LET article == reply.archive[n]
                score == scoreArticle(article, <<"thc">>, <<"terpenes">>)
            IN  (\A t \in {"thc", "terpenes"} :
                    t \notin article.title /\ article.occurrences[t] = 0)
                => /\ score.baseScore = 0
                   /\ score.finalScore = 0
                   /\ \A k \in 1..Len(reply.result.chunks) :
                         reply.result.chunks[k].articleId # article.id
                   /\ \A k \in 1..Len(reply.result.sources) :
                         reply.result.sources[k].url # article.link

C17_Witness ==
    /\ reply.fn = "retrieve"
    /\ \E n \in 1..Len(reply.archive) : reply.archive[n].id = 4
    /\ reply.maxArticles = maxArticlesDefault
    /\ reply.maxTotalChunks = maxTotalChunksDefault
    /\ Len(reply.result.chunks) > 0
    /\ reply.result.matchedArticles < reply.result.totalArticlesScanned

\* ------------------------------------------------------------------------
\* Product matcher (product-matcher.ts)
\* ------------------------------------------------------------------------

MAX_PRODUCTS == 4

\* Longest run of catalog entries tried around the fixed ones.
MaxCatalog == 4

\* a.toLowerCase().trim()
NormalizeAlias(alias) == IF alias = " THC" THEN "thc" ELSE alias

\* q.length >= 2
IsQuery(q) == q # "x" /\ q # ""

\* searchAliases.map(lower, trim).filter(length >= 2)
Queries(searchAliases) ==
    SelectSeq([k \in 1..Len(searchAliases) |-> NormalizeAlias(searchAliases[k])], IsQuery)

\* text.includes(q) for some query q; a text is the set of words it holds.
Hit(text, queries) == \E k \in 1..Len(queries) : queries[k] \in text

\* The loop over the tags left, with the score so far.
RECURSIVE TagLoop(_, _, _)
TagLoop(tags, queries, score) ==
    IF tags = <<>> THEN score
    ELSE LET after == IF Hit(Head(tags), queries) THEN score + 8 ELSE score
         IN  IF after >= 18 THEN after ELSE TagLoop(Tail(tags), queries, after)

\* The loop over the attribute values: 10 points once, for the first hit.
attributePoints(entry, queries) ==
    IF \E k \in 1..Len(entry.attributes) : Hit(entry.attributes[k], queries)
    THEN 10 ELSE 0

\* What the loop over the tags adds to the score the attribute loop left.
tagPoints(entry, queries) ==
    TagLoop(entry.tags, queries, attributePoints(entry, queries))
        - attributePoints(entry, queries)

\* The score of one in-stock entry; 0 drops it before the flower bonus.
productScore(entry, queries) ==
    LET attr == attributePoints(entry, queries)
        tagged == attr + tagPoints(entry, queries)
        named == IF Hit(entry.name, queries) THEN tagged + 3 ELSE tagged
    IN  IF named = 0 THEN 0
        ELSE IF entry.flower THEN named + 5 ELSE named

\* scored, sorted by score descending and cut to MAX_PRODUCTS * 2.
scoredPool(catalog, queries) ==
    LET inStock == SelectSeq(catalog,
                       LAMBDA e : e.stockStatus = "" \/ e.stockStatus = "instock")
        scores == [k \in 1..Len(inStock) |->
                      [entry |-> inStock[k], score |-> productScore(inStock[k], queries)]]
        kept == SelectSeq(scores, LAMBDA sc : sc.score # 0)
        scored == SortedByKey(kept, [k \in 1..Len(kept) |-> 0 - kept[k].score])
    IN  SubSeq(scored, 1, Min2(Len(scored), MAX_PRODUCTS * 2))

shuffleIndexByCall(score, i) == (score * 31 + i * 17 + reply.calls) % (i + 1)

\* j = (pool[i].score * 31 + i * 17) % (i + 1), i counted from 0
shuffleIndex(score, i) == (score * 31 + i * 17) % (i + 1)

\* The swap loop from index i (counted from 0) down to 1.
RECURSIVE Shuffle(_, _)
Shuffle(pool, i) ==
    IF i <= 0 THEN pool
    ELSE LET j == shuffleIndex(pool[i + 1].score, i)
             swapped == [pool EXCEPT ![i + 1] = pool[j + 1], ![j + 1] = pool[i + 1]]
         IN  Shuffle(swapped, i - 1)

findProducts(catalog, searchAliases) ==
    IF searchAliases = <<>> \/ catalog = <<>> THEN <<>>
    ELSE LET pool == scoredPool(catalog, Queries(searchAliases))
             shuffled == Shuffle(pool, Len(pool) - 1)
         IN  [k \in 1..Min2(Len(shuffled), MAX_PRODUCTS) |-> shuffled[k].entry]

\* The kinds of catalog entry: matched by an attribute and a flower, matched
\* by three tags, matched by its name only, matched but out of stock, unmatched.
CatalogKinds == {"flower", "tagged", "named", "soldOut", "other"}

CatalogEntry(kind, slug) ==
    [slug |-> slug,
     attributes |-> IF kind \in {"flower", "soldOut"} THEN <<{"sativa"}, {"thc"}>> ELSE <<{"indica"}>>,
     tags |-> IF kind = "tagged" THEN <<{"thc"}, {"cbd"}, {"thc", "oil"}, {"thc"}>> ELSE <<>>,
     name |-> IF kind = "named" THEN {"thc", "drops"} ELSE {"drops"},
     flower |-> (kind = "flower"),
     stockStatus |-> CASE kind = "soldOut" -> "outofstock"
                       [] kind = "flower" -> "instock"
                       [] OTHER -> ""]

FixedKinds == <<"named", "flower", "tagged", "flower", "named">>

Catalogs ==
    {[k \in 1..Len(kinds) |-> CatalogEntry(kinds[k], k)] :
        kinds \in {FixedKinds \o v : v \in UNION {[1..n -> CatalogKinds] : n \in 0..MaxCatalog}}
              \cup UNION {[1..n -> CatalogKinds] : n \in 0..MaxCatalog}}

AliasLists == {<<>>, <<"thc">>, <<"x", " THC">>, <<"cbd", "x">>}

InitProducts ==
    /\ AtRest
    /\ \E catalog \in Catalogs, searchAliases \in AliasLists :
          reply = [fn |-> "", calls |-> 0, catalog |-> catalog,
                   searchAliases |-> searchAliases, products |-> <<>>, previous |-> <<>>]

\* findProducts(searchAliases) on the catalog on disk.
CallFindProducts ==
    /\ reply.fn = ""
    /\ reply' = [reply EXCEPT
                   !.fn = "findProducts", !.calls = 1,
                   !.products = findProducts(reply.catalog, reply.searchAliases)]
    /\ RestUnchanged

\* A second call with the same aliases while the catalog file is the same.
CallFindProductsAgain ==
    /\ reply.fn = "findProducts"
    /\ reply' = [reply EXCEPT
                   !.fn = "findProducts twice", !.calls = 2,
                   !.previous = reply.products,
                   !.products = findProducts(reply.catalog, reply.searchAliases)]
    /\ RestUnchanged

NextProducts == CallFindProducts \/ CallFindProductsAgain

SpecProducts == InitProducts /\ [][NextProducts]_vars

C21_CapsRespected ==
    reply.fn = "retrieve" =>
        /\ reply.result.matchedArticles <= reply.maxArticles
        /\ Len(reply.result.chunks) <= reply.maxTotalChunks

\* C22: every reader of the store names an entry by its file: a concept the
\* public functions return carries the name of the file it was read from, and
\* the approval tool's sweep approves every pending file under the file's own
\* name, so that no listed file is pending after it, whatever slug the files
\* carry inside.
C22_FileNameIsSlug ==
    /\ reply.fn = "getConceptBySlug" =>
          \A c \in reply.concepts : c.slug = reply.slug
    /\ reply.fn \in {"getAllConcepts", "getConceptsByCategory"} =>
          \A c \in reply.concepts :
              /\ c.slug \in Listed(content)
              /\ c.verificationStatus = content[c.slug].verificationStatus
    /\ reply.fn = "approveAllPending" =>
          /\ reply.slugs \subseteq Listed(content)
          /\ PendingFiles = {}

\* C23: every entry saved after a fact-check carries a confidence score that
\* is a number between 0 and 1 (in hundredths: 0..100), whatever the
\* fact-check model returned as its confidence.
C23_ConfidenceInUnitInterval ==
    Saved /\ lastWrite.fcRan =>
        /\ ~lastWrite.confidenceScore.nan
        /\ lastWrite.confidenceScore.v >= 0
        /\ lastWrite.confidenceScore.v <= 100

\* ------------------------------------------------------------------------
\* Bulk driver: merge of the source lists
\* ------------------------------------------------------------------------

\* Longest source list tried, for the drafted entry and for the channels.
MaxSources == 3

SourceUrls == {"https://a", "https://b"}

SourceLists(origin) ==
    UNION {[1..n -> [url : SourceUrls, origin : {origin}]] : n \in 0..MaxSources}

\* The for loop over the channel sources left: push the ones whose URL is new.
RECURSIVE PushNew(_, _)
PushNew(allSources, channelSources) ==
    IF channelSources = <<>> THEN allSources
    ELSE LET src == Head(channelSources)
             existingUrls == {allSources[k].url : k \in 1..Len(allSources)}
         IN  IF src.url \notin existingUrls
             THEN PushNew(Append(allSources, src), Tail(channelSources))
             ELSE PushNew(allSources, Tail(channelSources))

\* concept.sources after the merge: the drafted entry's own sources as they
\* came, then the rag, live-magazine, wiki and web-search sources.
mergeSources(existingSources, channelSources) ==
    PushNew(existingSources, channelSources)

InitSources ==
    /\ AtRest
    /\ \E existingSources \in SourceLists("model"),
          channelSources \in SourceLists("channel") :
          reply = [fn |-> "", existingSources |-> existingSources,
                   channelSources |-> channelSources, sources |-> <<>>]

CallMergeSources ==
    /\ reply.fn = ""
    /\ reply' = [reply EXCEPT
                   !.fn = "mergeSources",
                   !.sources = mergeSources(reply.existingSources, reply.channelSources)]
    /\ RestUnchanged

NextSources == CallMergeSources

SpecSources == InitSources /\ [][NextSources]_vars

\* C24: the merged source list of an entry holds no URL twice, for every
\* source list of the drafting model and every list of channel sources.
C24_MergedSourcesUnique ==
    reply.fn = "mergeSources" =>
        \A k, h \in 1..Len(reply.sources) :
            reply.sources[k].url = reply.sources[h].url => k = h

\* ---------------------------------------------------------------------
\* chunkArticle on its own, over articles of every paragraph structure.
\* ---------------------------------------------------------------------

\* Most paragraphs of an article tried.
MaxParagraphs == 4

\* Words of a paragraph: well under, close to and over CHUNK_TARGET_WORDS.
ParagraphWords == {150, 300, 500}

\* Characters of a content none of whose paragraphs passes the filter
\* (loadArchive keeps contents of 100 characters or more).
ContentChars == {100, 2400, 2401, 5000}

ParagraphLists ==
    UNION {[1..n -> {Para(w) : w \in ParagraphWords}] : n \in 1..MaxParagraphs}

RECURSIVE ContentOf(_)
ContentOf(paragraphs) ==
    IF paragraphs = <<>> THEN [words |-> 0, chars |-> 0]
    ELSE LET rest == ContentOf(Tail(paragraphs))
         IN  [words |-> Head(paragraphs).words + rest.words,
              chars |-> Head(paragraphs).chars + rest.chars
                        + (IF Tail(paragraphs) = <<>> THEN 0 ELSE 2)]

ChunkedArticles ==
    {[paragraphs |-> ps, wordCount |-> ContentOf(ps).words, chars |-> ContentOf(ps).chars] :
        ps \in ParagraphLists}
    \cup {[paragraphs |-> <<>>, wordCount |-> MIN_WORD_COUNT, chars |-> c] :
            c \in ContentChars}

InitChunks ==
    /\ AtRest
    /\ \E article \in ChunkedArticles :
          reply = [fn |-> "", article |-> article, chunks |-> <<>>]

CallChunkArticle ==
    /\ reply.fn = ""
    /\ reply' = [reply EXCEPT !.fn = "chunkArticle",
                              !.chunks = chunkArticle(reply.article)]
    /\ RestUnchanged

NextChunks == CallChunkArticle

SpecChunks == InitChunks /\ [][NextChunks]_vars

\* C25: chunkArticle returns at least one and at most MAX_CHUNKS_PER_ARTICLE
\* chunks for every article with non-empty text, however many paragraphs
\* remain after the third chunk is closed.
C25_ChunkCountBounded ==
    reply.fn = "chunkArticle" /\ reply.article.chars > 0 =>
        /\ Len(reply.chunks) >= 1
        /\ Len(reply.chunks) <= MAX_CHUNKS_PER_ARTICLE

\* Four paragraphs of 300 words: three chunks are closed and the fourth
\* paragraph is left out.
C25_Witness ==
    /\ reply.fn = "chunkArticle"
    /\ reply.article.paragraphs = <<Para(300), Para(300), Para(300), Para(300)>>
    /\ Len(reply.chunks) = MAX_CHUNKS_PER_ARTICLE
    /\ \A k \in 1..Len(reply.chunks) : reply.chunks[k].wordCount = 300

\* C26: when no paragraph of an article passes the noise filter, chunkArticle
\* returns exactly one chunk, the content cut to CHUNK_TARGET_WORDS * 6
\* characters, so the chunk is never longer than that.
C26_FallbackTruncated ==
    reply.fn = "chunkArticle" /\ reply.article.paragraphs = <<>> =>
        /\ Len(reply.chunks) = 1
        /\ reply.chunks[1].chars = Slice(reply.article.chars, CHUNK_TARGET_WORDS * 6)
        /\ reply.chunks[1].chars <= CHUNK_TARGET_WORDS * 6

\* C27: in findProducts the points an entry gains from its tags are 8 per
\* matching tag and never more than 18, with or without the attribute hit.
C27_TagPointsCapped ==
    reply.fn = "findProducts" =>
        \A k \in 1..Len(reply.catalog) :
            LET points == tagPoints(reply.catalog[k], Queries(reply.searchAliases))
            IN  points % 8 = 0 /\ points <= 18

\* C28: when the bulk driver has just marked an item completed, the content
\* file named after the item's own queue slug exists, and the file it wrote
\* is that one, so no two queue items are written to the same file.
C28_CompletedItemHasOwnFile ==
    Saved =>
        /\ queue[lastWrite.item].status = "completed"
        /\ content[ItemSlug(lastWrite.item)].exists
        /\ lastWrite.slug = ItemSlug(lastWrite.item)
        /\ \A other \in Items \ {lastWrite.item} : lastWrite.slug # ItemSlug(other)

\* C29: an entry that carries the schema's medicalName key is classified
\* high whatever its category and text, so when the fact check ran the gate
\* never saved it as verified.
C29_SchemaEntryNeverVerified ==
    Saved /\ lastWrite.fcRan /\ lastWrite.concept.schemaKeys =>
        /\ lastWrite.riskLevel = "high"
        /\ lastWrite.verificationStatus = "pending"
        /\ lastWrite.needsHumanReview

\* A schema-conformant entry of a low-risk category, drafted with context and
\* checked with a confidence of 0.85 or more, saved as pending.
C29_Witness ==
    /\ Saved
    /\ lastWrite.fcRan
    /\ ~lastWrite.fcFailed
    /\ lastWrite.concept.schemaKeys
    /\ lastWrite.concept.categorySlug \notin highRiskCategories
    /\ lastWrite.hasCombinedContext
    /\ JsGe(lastWrite.confidenceScore, Num(85))
    /\ lastWrite.verificationStatus = "pending"

\* C30: retrieve drops an article only when its base score is 0: with caps
\* that cut nothing, every article of the archive whose base score is over 0
\* is among the articles chunked, whatever its year.
C30_PositiveBaseKept ==
    reply.fn = "retrieve" /\ reply.maxArticles >= Len(reply.archive)
                          /\ reply.maxTotalChunks = maxTotalChunksDefault =>
        \A n \in 1..Len(reply.archive) :
            LET article == reply.archive[n]
                score == scoreArticle(article, <<"thc">>, <<"terpenes">>)
            IN  score.baseScore > 0 =>
                    \E k \in 1..Len(reply.result.chunks) :
                        reply.result.chunks[k].articleId = article.id

====
